---------------------------- MODULE Spec2Model ----------------------------
(***************************************************************************)
(* A model of the daily-scraper pipeline:                                  *)
(*   - scrape_all_sources (src/src/utils.py): the fan-out of one asyncio   *)
(*     task per source under one shared semaphore, and the merge of the    *)
(*     per-source dataframes, with the steps of main around it;            *)
(*   - DiscordScraper.fetch_and_filter_messages and                        *)
(*     TelegramScraper.scrape_24h_to_df_telegram (src/src/scraper);        *)
(*   - LLMClassifier._classify_batch and LLMClassifier.classify            *)
(*     (src/src/classification.py);                                        *)
(*   - the join of the verdicts onto the records in main (src/main.py).    *)
(* Each part has its own specification over its own group of variables;    *)
(* the variables of the other parts stay as Init left them.                *)
(***************************************************************************)
EXTENDS Integers, Sequences, FiniteSets, TLC

VARIABLES
    \* ---- scrape_all_sources ----
    max_concurrent, \* the argument max_concurrent
    semaphore,      \* the value of asyncio.Semaphore(max_concurrent)
    taskPc,         \* where each source task stands
    title_elfa,     \* per Elfa task: whether its local title_elfa is bound
    raisedIn,       \* history: the sources whose connector invocation raised
    all_stats,      \* the list all_stats
    all_dfs,        \* the list all_dfs
    orchPc,         \* where scrape_all_sources itself stands
    combined,       \* the dataframe scrape_all_sources returned
    \* ---- the merge step alone ----
    mPc, mIn, mOut, mOut2,
    \* ---- _classify_batch ----
    cbPc, batch, attempt, cbLog, cbResult,
    \* ---- the result merger of main ----
    finPc, df_combined, df, df_merged, records,
    \* ---- main around scrape_all_sources ----
    mainPc,         \* where main stands
    alerts,         \* the kinds of alert sent to the operator so far
    combined_cols,  \* the columns of the dataframe scrape_all_sources returned
    output_written, \* whether out/<today>.json has been written
    \* ---- DiscordScraper.fetch_and_filter_messages ----
    dChannel,       \* the messages of the channel, newest first
    dPc,            \* where the connector stands
    before_id,      \* the local before_id (0 stands for None)
    retry_count,    \* the local retry_count
    all_messages,   \* the local all_messages
    dRequests,      \* history: the requests sent and what came back
    dResult,        \* what the invocation ended with
    \* ---- TelegramScraper.scrape_24h_to_df_telegram ----
    tGroup,         \* the messages of the group, newest first
    tPc,            \* where the connector stands
    tNext,          \* the position of the message iter_messages yields next
    tRecords,       \* the local records
    total_pulled,   \* the local total_pulled
    tConsidered,    \* history: the messages that reached the low-value filter
    tResult,        \* what the invocation ended with
    \* ---- LLMClassifier.classify ----
    clPc,           \* where classify stands
    input_data,     \* the local input_data
    clSemaphore,    \* the value of asyncio.Semaphore(max_concurrent)
    clTaskPc,       \* where each _process_batch task stands
    clReply,        \* history: what the service call of each batch ended in
    clOrder,        \* history: the batches in the order they extended results
    results         \* the local results

scrapeVars == <<max_concurrent, semaphore, taskPc, title_elfa, raisedIn,
                all_stats, all_dfs, orchPc, combined>>
mergeVars == <<mPc, mIn, mOut, mOut2>>
batchVars == <<cbPc, batch, attempt, cbLog, cbResult>>
finalVars == <<finPc, df_combined, df, df_merged, records>>
mainVars == <<mainPc, alerts, combined_cols, output_written>>
discordVars == <<dChannel, dPc, before_id, retry_count, all_messages,
                 dRequests, dResult>>
telegramVars == <<tGroup, tPc, tNext, tRecords, total_pulled, tConsidered,
                  tResult>>
classifyVars == <<clPc, input_data, clSemaphore, clTaskPc, clReply, clOrder,
                  results>>
connVars == <<discordVars, telegramVars, classifyVars>>
nonDiscordVars == <<scrapeVars, mergeVars, batchVars, finalVars, mainVars,
                    telegramVars, classifyVars>>
nonTelegramVars == <<scrapeVars, mergeVars, batchVars, finalVars, mainVars,
                     discordVars, classifyVars>>
nonClassifyVars == <<scrapeVars, mergeVars, batchVars, finalVars, mainVars,
                     discordVars, telegramVars>>
vars == <<scrapeVars, mergeVars, batchVars, finalVars, mainVars, connVars>>

---------------------------------------------------------------------------
(* Bounds of the model.                                                    *)

NumSources == 5      \* source identifiers handed to scrape_all_sources
MaxCap == 2          \* the argument max_concurrent of scrape_all_sources
MaxRecords == 3      \* rows of the concatenated dataframe in the merge spec
MaxTs == 2           \* parsable timestamps are 1..MaxTs
MaxBatch == 2        \* items of a classification batch
MaxRows == 2         \* rows of the merged collection in the result merger spec
MaxChannel == 3      \* messages of the Discord channel, of the Telegram group
MaxFaults == 3       \* 429 answers and network errors of one Discord invocation
MaxItems == 5        \* records handed to classify

---------------------------------------------------------------------------
(* Timestamps. A raw timestamp is a number: 1..MaxTs stand for values      *)
(* pd.to_datetime can parse, Unparsable for one it cannot.                 *)

Unparsable == 0
NaT == -1

RawTs == {Unparsable} \cup (1..MaxTs)

\* pd.to_datetime(..., errors='coerce', utc=True): what cannot be parsed
\* becomes NaT, everything else its instant.
ToDatetime(raw) == IF raw \in 1..MaxTs THEN raw ELSE NaT

CoerceTimestamps(rows) ==
    [i \in 1..Len(rows) |->
        [rows[i] EXCEPT !.timestamp = ToDatetime(rows[i].timestamp)]]


---------------------------------------------------------------------------
(* The merge step of scrape_all_sources (utils.py 135-146).                *)

Texts == {"a", "b", "c"}

\* The rows of `rows` at the indices in S, in their order in `rows`.
RowsAt(rows, S) ==
    LET F[i \in 0..Len(rows)] ==
            IF i = 0 THEN <<>>
            ELSE IF i \in S THEN Append(F[i - 1], rows[i]) ELSE F[i - 1]
    IN  F[Len(rows)]

\* The set of results DataFrame.sort_values("timestamp", ascending=asc) may
\* return. The default kind is "quicksort", which pandas documents as not
\* stable: rows with equal timestamps come out in an order the call does not
\* fix, so any row with the least (ascending) or greatest (descending)
\* timestamp may come first. na_position is "last" in both directions, and
\* the NaT rows keep their relative order.
RECURSIVE SortValues(_, _)
SortValues(rows, asc) ==
    IF rows = <<>> THEN {<<>>}
    ELSE LET n == Len(rows)
             timed == {i \in 1..n : rows[i].timestamp # NaT}
             firsts ==
                IF timed = {} THEN {1}
                ELSE {i \in timed : \A j \in timed :
                        IF asc THEN rows[i].timestamp <= rows[j].timestamp
                               ELSE rows[i].timestamp >= rows[j].timestamp}
         IN  UNION {{<<rows[i]>> \o rest :
                        rest \in SortValues(RowsAt(rows, (1..n) \ {i}), asc)} :
                    i \in firsts}

\* drop_duplicates(subset=["text"], keep="last"): a row stays when no later row
\* has its text.
DropDuplicatesKeepLast(rows) ==
    RowsAt(rows, {i \in 1..Len(rows) :
                    \A j \in (i + 1)..Len(rows) : rows[j].text # rows[i].text})

\* A faulty variant of MergeOutcomes: the last sort left ascending.
MergeOutcomesAscending(rows) ==
    UNION {SortValues(DropDuplicatesKeepLast(s), TRUE) :
            s \in SortValues(CoerceTimestamps(rows), TRUE)}

\* utils.py 137-144: coerce the timestamps, sort ascending, drop duplicate
\* texts keeping the last, sort descending. The set of dataframes the chain
\* may produce from the concatenation `rows`.
MergeOutcomes(rows) ==
    UNION {SortValues(DropDuplicatesKeepLast(s), FALSE) :
            s \in SortValues(CoerceTimestamps(rows), TRUE)}

\* pd.concat(all_dfs, ignore_index=True)
RECURSIVE Concat(_)
Concat(dfs) == IF dfs = <<>> THEN <<>> ELSE Head(dfs) \o Concat(Tail(dfs))

\* A concatenated dataframe of n rows, the id of a row its position, its text
\* and raw timestamp those of cells[i].
InputFrame(n, cells) ==
    [i \in 1..n |-> [id |-> i, text |-> cells[i][1], timestamp |-> cells[i][2]]]

MergeIdle == mPc = "idle" /\ mIn = <<>> /\ mOut = <<>> /\ mOut2 = <<>>

\* The merge specification starts from every concatenation of 1 to MaxRecords
\* rows.
MergeInit ==
    /\ mPc = "start"
    /\ \E n \in 1..MaxRecords :
        \E cells \in [1..n -> Texts \X RawTs] : mIn = InputFrame(n, cells)
    /\ mOut = <<>> /\ mOut2 = <<>>

\* The merge step applied to the concatenation.
MergeOnce ==
    /\ mPc = "start"
    /\ mOut' \in MergeOutcomes(mIn)
    /\ mPc' = "merged"
    /\ UNCHANGED <<mIn, mOut2, scrapeVars, batchVars, finalVars,
                   mainVars, connVars>>

\* The merge step applied to its own output.
MergeAgain ==
    /\ mPc = "merged"
    /\ mOut2' \in MergeOutcomes(mOut)
    /\ mPc' = "remerged"
    /\ UNCHANGED <<mIn, mOut, scrapeVars, batchVars, finalVars,
                   mainVars, connVars>>

MergeNext == MergeOnce \/ MergeAgain

---------------------------------------------------------------------------
(* scrape_all_sources (utils.py 32-150): one task per source identifier,   *)
(* all under one semaphore, gathered by asyncio.gather.                    *)

Sources == 1..NumSources

\* The platform of a source: main hands over three lists, the Discord
\* channels, the Telegram groups and the Elfa endpoints.
PlatformOf(s) ==
    CASE s % 3 = 1 -> "discord"
      [] s % 3 = 2 -> "telegram"
      [] OTHER     -> "elfa"

\* ScrapeStats.success of the stats a connector builds without naming success:
\* the default of the type, which the callers here never read.
SuccessDefault == "default"
SuccessFalse == "False"

\* The dataframes the connector of source s may hand back: no row, or one row;
\* sources of the same parity bring the same text, at timestamps that differ
\* or agree. The Discord connector never hands back a dataframe without rows:
\* it raises instead (discord_scrap.py 152-153, see DiscordFinish).
SourceRow(s) ==
    [id |-> 1, platform |-> PlatformOf(s),
     text |-> IF s % 2 = 1 THEN "a" ELSE "b",
     timestamp |-> 1 + ((s \div 2) % MaxTs)]
DfMenu(s) ==
    IF PlatformOf(s) = "discord"
    THEN {<<SourceRow(s)>>}
    ELSE {<<>>, <<SourceRow(s)>>}

\* A faulty variant of FailedStats: the entry names the last source of the
\* list, whichever task builds it.
FailedStatsLateBound(s) ==
    [channel_id |-> NumSources, platform |-> PlatformOf(s), pulled |-> 0,
     kept |-> 0, success |-> SuccessFalse]

\* The stats on the except path of a task (utils.py 73-78, 96-101, 117-122).
FailedStats(s) ==
    [channel_id |-> s, platform |-> PlatformOf(s), pulled |-> 0, kept |-> 0,
     success |-> SuccessFalse]

\* The stats a connector returns with the dataframe frame; the sources of odd
\* number have had one more message, which their filter rejected.
ReturnedStats(s, frame) ==
    [channel_id |-> s, platform |-> PlatformOf(s),
     pulled |-> Len(frame) + (s % 2), kept |-> Len(frame),
     success |-> SuccessDefault]

\* The kinds of alert send_error_to_telegram carries to the operator: the
\* failure of one source (utils.py 65, 84, 116) and the absence of any
\* message (utils.py 148).
AlertSourceFailed == "source failed"
AlertNoMessages == "no messages collected"

\* The columns of a record (discord_scrap.py 138-145, telegram_scrap.py
\* 123-130) and those classify requires (classification.py 120).
RecordColumns == {"id", "text", "timestamp", "author", "platform", "links"}
RequiredCols == {"id", "platform", "text"}

MainIdle ==
    /\ mainPc = "idle" /\ alerts = {} /\ combined_cols = {}
    /\ output_written = FALSE

\* main.py 58: main awaits scrape_all_sources.
MainInit ==
    /\ mainPc = "scrape" /\ alerts = {} /\ combined_cols = {}
    /\ output_written = FALSE

ScrapeIdle ==
    /\ max_concurrent = 0 /\ semaphore = 0
    /\ taskPc = [s \in Sources |-> "none"]
    /\ title_elfa = [s \in Sources |-> FALSE]
    /\ raisedIn = {} /\ all_stats = <<>> /\ all_dfs = <<>>
    /\ orchPc = "idle" /\ combined = <<>>

\* utils.py 53-55 and 124-132: the semaphore, the empty lists, and one task per
\* source handed to asyncio.gather.
ScrapeInit ==
    /\ max_concurrent = MaxCap
    /\ semaphore = max_concurrent
    /\ taskPc = [s \in Sources |-> "created"]
    /\ title_elfa = [s \in Sources |-> FALSE]
    /\ raisedIn = {} /\ all_stats = <<>> /\ all_dfs = <<>>
    /\ orchPc = "gather" /\ combined = <<>>

\* A faulty variant of CanAcquire: the semaphore never blocks.
CanAcquireAlways(value) == TRUE

\* asyncio.Semaphore.acquire goes through without waiting while the value is
\* positive.
CanAcquire(value) == value > 0

\* `async with semaphore:` entered (utils.py 62, 81, 104); the task then awaits
\* its connector.
Acquire(s) ==
    /\ taskPc[s] = "created"
    /\ CanAcquire(semaphore)
    /\ semaphore' = semaphore - 1
    /\ taskPc' = [taskPc EXCEPT ![s] = "connector"]
    /\ UNCHANGED <<max_concurrent, title_elfa, raisedIn, all_stats, all_dfs,
                   orchPc, combined, mainVars,
                   mergeVars, batchVars, finalVars, connVars>>

\* The connector returns (frame, stats): the stats are appended, the frame too
\* unless it is empty, an Elfa task binds title_elfa (utils.py 110), and the
\* semaphore is released on leaving the with block.
ConnectorReturns(s) ==
    /\ taskPc[s] = "connector"
    /\ \E frame \in DfMenu(s) :
        /\ all_stats' = Append(all_stats, ReturnedStats(s, frame))
        /\ all_dfs' = IF frame # <<>> THEN Append(all_dfs, frame) ELSE all_dfs
    /\ title_elfa' = IF PlatformOf(s) = "elfa"
                     THEN [title_elfa EXCEPT ![s] = TRUE] ELSE title_elfa
    /\ semaphore' = semaphore + 1
    /\ taskPc' = [taskPc EXCEPT ![s] = "done"]
    /\ UNCHANGED <<max_concurrent, raisedIn, orchPc, combined, mainVars,
                   mergeVars, batchVars, finalVars, connVars>>

\* The connector raises. The except clause first builds its message: that of
\* _scrape_discord and _scrape_telegram names the source and the task goes on
\* to await send_error_to_telegram; that of _scrape_elfa reads title_elfa
\* (utils.py 115), which line 110 binds only after fetch_endpoint returned, so
\* the read raises UnboundLocalError, the task leaves the with block (releasing
\* the semaphore) and ends with that exception.
ConnectorRaises(s) ==
    /\ taskPc[s] = "connector"
    /\ raisedIn' = raisedIn \cup {s}
    /\ IF PlatformOf(s) = "elfa" /\ ~title_elfa[s]
       THEN /\ taskPc' = [taskPc EXCEPT ![s] = "failed"]
            /\ semaphore' = semaphore + 1
       ELSE /\ taskPc' = [taskPc EXCEPT ![s] = "except"]
            /\ semaphore' = semaphore
    /\ UNCHANGED <<max_concurrent, title_elfa, all_stats, all_dfs, orchPc,
                   combined, mainVars,
                   mergeVars, batchVars, finalVars, connVars>>

\* send_error_to_telegram returned: the failed stats are appended and the task
\* ends, releasing the semaphore.
HandlerRecords(s) ==
    /\ taskPc[s] = "except"
    /\ all_stats' = Append(all_stats, FailedStats(s))
    /\ semaphore' = semaphore + 1
    /\ taskPc' = [taskPc EXCEPT ![s] = "done"]
    /\ alerts' = alerts \cup {AlertSourceFailed}
    /\ UNCHANGED <<max_concurrent, title_elfa, raisedIn, all_dfs, orchPc,
                   combined, mainPc, combined_cols, output_written,
                   mergeVars, batchVars, finalVars, connVars>>

\* A faulty variant of GatherDone: the wait ends with the first task that
\* returned.
GatherDoneFirstCompleted(pcs) == \E s \in Sources : pcs[s] = "done"

\* asyncio.gather(*tasks) without return_exceptions (utils.py 132) returns
\* when every task has returned.
GatherDone(pcs) == \A s \in Sources : pcs[s] = "done"

\* The columns of the empty dataframe of utils.py 149.
EmptyFrameColumns == {"id", "text", "timestamp", "author", "source", "links"}

\* asyncio.gather returns. Then utils.py 135-150: the merge of all_dfs, whose
\* columns are those of the records, or the alert to the operator and the
\* empty dataframe.
GatherReturns ==
    /\ orchPc = "gather"
    /\ GatherDone(taskPc)
    /\ IF all_dfs # <<>>
       THEN /\ combined' \in MergeOutcomes(Concat(all_dfs))
            /\ combined_cols' = RecordColumns
            /\ alerts' = alerts
       ELSE /\ combined' = <<>>
            /\ combined_cols' = EmptyFrameColumns
            /\ alerts' = alerts \cup {AlertNoMessages}
    /\ orchPc' = "returned"
    /\ UNCHANGED <<max_concurrent, semaphore, taskPc, title_elfa, raisedIn,
                   all_stats, all_dfs, mainPc, output_written,
                   mergeVars, batchVars, finalVars, connVars>>

\* asyncio.gather(*tasks) without return_exceptions: the first exception of a
\* task is raised in the awaiting coroutine at once; the other tasks are not
\* cancelled and run on.
GatherRaises ==
    /\ orchPc = "gather"
    /\ \E s \in Sources : taskPc[s] = "failed"
    /\ orchPc' = "raised"
    /\ UNCHANGED <<max_concurrent, semaphore, taskPc, title_elfa, raisedIn,
                   all_stats, all_dfs, combined, mainVars,
                   mergeVars, batchVars, finalVars, connVars>>

\* main.py 65 with classification.py 120-123: scrape_all_sources returned and
\* main calls classify, which raises ValueError when a required column is
\* missing; nothing in main catches it, so the run ends in the finally
\* clause. Otherwise classify goes on to dispatch its batches.
MainClassifies ==
    /\ mainPc = "scrape"
    /\ orchPc = "returned"
    /\ mainPc' = IF RequiredCols \subseteq combined_cols
                 THEN "classify" ELSE "aborted"
    /\ UNCHANGED <<scrapeVars, alerts, combined_cols, output_written,
                   mergeVars, batchVars, finalVars, connVars>>

\* main.py 67-88: classify returned, the verdicts are joined onto the records
\* and the output file is written.
MainWrites ==
    /\ mainPc = "classify"
    /\ mainPc' = "written"
    /\ output_written' = TRUE
    /\ UNCHANGED <<scrapeVars, alerts, combined_cols,
                   mergeVars, batchVars, finalVars, connVars>>

\* main.py 67: pd.merge raises KeyError when the dataframe of verdicts has no
\* id or platform column (the service answered a list of the right length
\* whose elements carry no such key); the run ends in the finally clause.
MainJoinRaises ==
    /\ mainPc = "classify"
    /\ mainPc' = "aborted"
    /\ UNCHANGED <<scrapeVars, alerts, combined_cols, output_written,
                   mergeVars, batchVars, finalVars, connVars>>

\* main.py 58 and 103-105: the exception asyncio.gather raised leaves
\* scrape_all_sources and main, through the finally clause.
MainAborts ==
    /\ mainPc = "scrape"
    /\ orchPc = "raised"
    /\ mainPc' = "aborted"
    /\ UNCHANGED <<scrapeVars, alerts, combined_cols, output_written,
                   mergeVars, batchVars, finalVars, connVars>>

ScrapeNext ==
    \/ \E s \in Sources : Acquire(s)
    \/ \E s \in Sources : ConnectorReturns(s)
    \/ \E s \in Sources : ConnectorRaises(s)
    \/ \E s \in Sources : HandlerRecords(s)
    \/ GatherReturns
    \/ GatherRaises
    \/ MainClassifies
    \/ MainWrites
    \/ MainJoinRaises
    \/ MainAborts

---------------------------------------------------------------------------
(* Python values as they reach the dataframes. JSON true/false load as the *)
(* booleans; the system prompt asks the service for the strings "true" and *)
(* "false", and the fallback writes the strings "false" and "0.0".         *)

PyTrue == "True"
PyFalse == "False"
StrTrue == "'true'"
StrFalse == "'false'"
NaN == "NaN"
FloatZero == "0.0"
StrZero == "'0.0'"
StrScore == "'0.92'"

KeepValues == {PyTrue, PyFalse, StrTrue, StrFalse}

---------------------------------------------------------------------------
(* LLMClassifier._classify_batch (classification.py 81-111).               *)

ItemPlatform(i) == IF i % 2 = 1 THEN "discord" ELSE "telegram"

\* The batches: 1 to MaxBatch items, item i with id i.
Batches ==
    {[i \in 1..n |-> [id |-> i, platform |-> ItemPlatform(i)]] : n \in 1..MaxBatch}

\* The verdicts a service response may hold.
ServiceVerdicts ==
    {[id |-> i, platform |-> ItemPlatform(i), keep |-> k, score |-> StrScore,
      tags |-> <<"news">>] : i \in 1..MaxBatch, k \in KeepValues}

\* What one call of the service may end in: an exception of the call (timeout,
\* transport error), content that json.loads rejects, JSON that is no list, or
\* a JSON list of up to one verdict more than the batch has items.
Replies(items) ==
    {[kind |-> k, body |-> <<>>] : k \in {"error", "notjson", "object"}}
    \cup {[kind |-> "list", body |-> b] :
            b \in UNION {[1..n -> ServiceVerdicts] : n \in 0..(Len(items) + 1)}}

\* A faulty variant of Accepts: the length of the list is not compared.
AcceptsAnyList(reply, items) == reply.kind = "list"

\* classification.py 99: isinstance(result, list) and len(result) == len(batch)
Accepts(reply, items) ==
    reply.kind = "list" /\ Len(reply.body) = Len(items)

\* classification.py 105-111: the list the return statement builds.
FallbackVerdicts(items) ==
    [i \in 1..Len(items) |->
        [id |-> items[i].id, platform |-> items[i].platform,
         keep |-> StrFalse, score |-> StrZero, tags |-> <<>>]]

BatchIdle ==
    cbPc = "idle" /\ batch = <<>> /\ attempt = 0 /\ cbLog = <<>> /\ cbResult = <<>>

\* The first pass of `for attempt in range(3)`, at the await of the call.
BatchInit ==
    /\ cbPc = "call" /\ batch \in Batches /\ attempt = 0
    /\ cbLog = <<>> /\ cbResult = <<>>

\* The awaited call ends (classification.py 88-103). An exception of the call
\* or of json.loads goes to the except clause, which awaits the backoff sleep.
\* Otherwise the response is returned if line 99 accepts it; if not, control
\* leaves the try statement and reaches the return of line 105, which stands
\* inside the loop body.
ServiceReplies ==
    /\ cbPc = "call"
    /\ \E reply \in Replies(batch) :
        /\ cbLog' = Append(cbLog, reply)
        /\ IF reply.kind \in {"error", "notjson"}
           THEN cbPc' = "sleep" /\ cbResult' = cbResult
           ELSE /\ cbPc' = "returned"
                /\ cbResult' = IF Accepts(reply, batch)
                               THEN reply.body ELSE FallbackVerdicts(batch)
    /\ UNCHANGED <<batch, attempt, scrapeVars, mergeVars, finalVars,
                   mainVars, connVars>>

\* asyncio.sleep(2 ** attempt) is over (classification.py 103): the except
\* clause ends and the statement after the try, still inside the loop body, is
\* the return of line 105. No path leads to a second pass of the loop.
SleepOver ==
    /\ cbPc = "sleep"
    /\ cbResult' = FallbackVerdicts(batch)
    /\ cbPc' = "returned"
    /\ UNCHANGED <<batch, attempt, cbLog, scrapeVars, mergeVars, finalVars,
                   mainVars, connVars>>

BatchNext == ServiceReplies \/ SleepOver

---------------------------------------------------------------------------
(* The result merger of main (main.py 65-75).                              *)

TextAt == <<"a", "b", "c", "d", "e">>

\* Ids are unique within a source only: two Telegram groups number their
\* messages alike. The service may also answer with an id no record carries.
RecordIds == {1, 2}
VerdictIds == {1, 2, 3}

\* The merged collections handed to classify and to the join: 1 to MaxRows
\* rows with pairwise different texts, latest first.
MergedCollections ==
    UNION {{[i \in 1..n |-> [id |-> f[i], platform |-> "telegram",
                             text |-> TextAt[i], timestamp |-> MaxTs]] :
                f \in [1..n -> RecordIds]} : n \in 1..MaxRows}

\* The dataframes classify may return for n records: n verdicts (every batch
\* result has the length of its batch), in the completion order of the
\* batches, with the ids and the keep values the service or the fallback
\* wrote.
VerdictFrames(n) ==
    [1..n -> {[id |-> i, platform |-> "telegram", keep |-> k] :
                i \in VerdictIds, k \in KeepValues}]

\* pd.merge(df_combined, df, on=["id", "platform"], how="left"): per row of the
\* left frame, in its order, one row per verdict with the row's key, in the
\* verdicts' order; a row without any gets NaN in the verdict columns.
MatchesOf(row, verdicts) ==
    RowsAt(verdicts, {j \in 1..Len(verdicts) :
                        /\ verdicts[j].id = row.id
                        /\ verdicts[j].platform = row.platform})

JoinedRow(row, keep) ==
    [id |-> row.id, platform |-> row.platform, text |-> row.text,
     timestamp |-> row.timestamp, keep |-> keep]

RowJoin(row, verdicts) ==
    IF MatchesOf(row, verdicts) = <<>>
    THEN <<JoinedRow(row, NaN)>>
    ELSE [j \in 1..Len(MatchesOf(row, verdicts)) |->
            JoinedRow(row, MatchesOf(row, verdicts)[j].keep)]

LeftJoin(rows, verdicts) ==
    Concat([i \in 1..Len(rows) |-> RowJoin(rows[i], verdicts)])

\* main.py 70: df_merged["keep"] != False, by Python's comparison: only the
\* boolean False equals False; the string "false" and NaN do not.
KeepNotFalse(keep) == keep # PyFalse

\* main.py 70: the rows of df_merged the mask keeps.
Filtered(joined) ==
    RowsAt(joined, {i \in 1..Len(joined) : KeepNotFalse(joined[i].keep)})

\* main.py 72-75: the keep column dropped, the rows as records.
DropKeep(joined) ==
    [i \in 1..Len(joined) |->
        [f \in (DOMAIN joined[i]) \ {"keep"} |-> joined[i][f]]]

FinalIdle ==
    /\ finPc = "idle" /\ df_combined = <<>> /\ df = <<>>
    /\ df_merged = <<>> /\ records = <<>>

\* main.py 65: classify has returned df for df_combined.
FinalInit ==
    /\ finPc = "classified"
    /\ df_combined \in MergedCollections
    /\ df \in VerdictFrames(Len(df_combined))
    /\ df_merged = <<>> /\ records = <<>>

\* main.py 67-75
Finalize ==
    /\ finPc = "classified"
    /\ df_merged' = LeftJoin(df_combined, df)
    /\ records' = DropKeep(Filtered(LeftJoin(df_combined, df)))
    /\ finPc' = "done"
    /\ UNCHANGED <<df_combined, df, scrapeVars, mergeVars, batchVars,
                   mainVars, connVars>>

FinalNext == Finalize

---------------------------------------------------------------------------
(* DiscordScraper.fetch_and_filter_messages (discord_scrap.py 27-154), for  *)
(* one channel. The channel is a sequence of messages, newest first; the    *)
(* message at position i of n has id n + 1 - i, so ids fall with age as     *)
(* Discord's snowflakes do.                                                 *)

\* "limit": 100 (discord_scrap.py 51), scaled down.
PageSize == 2

\* max_retries (discord_scrap.py 27; utils.py 64 passes 3).
MaxRetries == 3

\* cutoff_time (discord_scrap.py 44): the parsable timestamps from Cutoff on
\* lie within the last 24 hours, those below are older.
Cutoff == 2

\* Message contents: a greeting, a text, the same text with a link, and the
\* greeting with a link.
Contents == {"gm", "a", "a <url>", "gm <url>"}

\* The contents of the messages of the Discord channel.
ChannelContents == {"gm", "a <url>"}

\* is_low_value_message (normalization.py 36-53): an empty text, or a text of
\* at most three words that is a phrase of the list once its punctuation is
\* taken out. A link is a word of its own and is in no phrase of the list.
IsLowValueMessage(content) == content \in {"", "gm"}

\* filter_text (normalization.py 14-34): clean(..., no_urls=True,
\* replace_with_url="", normalize_whitespace=True) takes the link out.
FilterText(content) ==
    CASE content = "a <url>" -> "a"
      [] content = "gm <url>" -> "gm"
      [] OTHER -> content

\* The id of the one channel of this specification.
ChannelId == "channel"

\* The messages endpoint answers newest first.
NewestFirst(ts) ==
    \A i, j \in DOMAIN ts :
        (i < j /\ ts[i] # Unparsable /\ ts[j] # Unparsable) => ts[i] >= ts[j]

ChannelOf(n, ts, content) ==
    [i \in 1..n |-> [id |-> n + 1 - i, timestamp |-> ts[i],
                     content |-> content[i]]]

FirstN(seq, n) == SubSeq(seq, 1, IF Len(seq) < n THEN Len(seq) ELSE n)

\* GET /channels/{id}/messages?limit=100[&before=id]: the newest PageSize
\* messages, of those older than the cursor when one is given
\* (discord_scrap.py 51-53: the parameter is sent only for a truthy before_id).
IsBefore(m, before) == before = 0 \/ m.id < before
Page(channel, before) ==
    FirstN(SelectSeq(channel, LAMBDA m : IsBefore(m, before)), PageSize)

\* discord_scrap.py 95-107: the messages of the page up to the first one older
\* than the cutoff; a message whose timestamp cannot be read is skipped.
\* A faulty variant of ValidMessages: the cutoff is not looked at.
ValidMessagesNoCutoff(page) ==
    SelectSeq(page, LAMBDA msg : msg.timestamp # Unparsable)

RECURSIVE ValidMessages(_)
ValidMessages(page) ==
    IF page = <<>> THEN <<>>
    ELSE LET msg == Head(page)
         IN  IF msg.timestamp = Unparsable THEN ValidMessages(Tail(page))
             ELSE IF msg.timestamp >= Cutoff
                  THEN <<msg>> \o ValidMessages(Tail(page))
                  ELSE <<>>

\* discord_scrap.py 114: another page is requested when the page was full and
\* every message of it was kept.
NextPageWanted(page, valid_messages) ==
    Len(page) = PageSize /\ Len(valid_messages) = PageSize

\* discord_scrap.py 115: the cursor of the next request.
NextCursor(valid_messages) == valid_messages[Len(valid_messages)].id

\* discord_scrap.py 119-146: the records of the messages that are not of low
\* value.
RECURSIVE FilteredData(_)
FilteredData(msgs) ==
    IF msgs = <<>> THEN <<>>
    ELSE LET msg == Head(msgs)
         IN  IF IsLowValueMessage(msg.content) THEN FilteredData(Tail(msgs))
             ELSE <<[id |-> msg.id, text |-> FilterText(msg.content),
                     timestamp |-> msg.timestamp, platform |-> "discord"]>>
                  \o FilteredData(Tail(msgs))

\* ScrapeStats built without success and error keeps the defaults of both.
ErrorDefault == "default"
NoStats == [channel_id |-> "none", platform |-> "none", pulled |-> 0,
            kept |-> 0, success |-> "none", error |-> "none"]

\* A faulty variant of DiscordStats: kept counts the messages, pulled the
\* records.
DiscordStatsSwapped(msgs, data) ==
    [channel_id |-> ChannelId, platform |-> "discord",
     pulled |-> Len(data), kept |-> Len(msgs),
     success |-> SuccessDefault, error |-> ErrorDefault]

\* discord_scrap.py 148-154: the stats of the invocation.
DiscordStats(msgs, data) ==
    [channel_id |-> ChannelId, platform |-> "discord",
     pulled |-> Len(msgs), kept |-> Len(data),
     success |-> SuccessDefault, error |-> ErrorDefault]

\* discord_scrap.py 119-154, what follows the page loop. The result of line
\* 153 is not assigned, so the dataframe keeps every record; but
\* sort_values("timestamp") is evaluated, and on the dataframe built from an
\* empty list, which has no column at all, it raises KeyError.
DiscordFinish(msgs) ==
    LET data == FilteredData(msgs)
    IN  IF data = <<>>
        THEN [pc |-> "raised", error |-> "KeyError", caught |-> "none",
              df |-> <<>>, stats |-> NoStats]
        ELSE [pc |-> "returned", error |-> "none", caught |-> "none",
              df |-> data, stats |-> DiscordStats(msgs, data)]

\* How an invocation ended: error is the exception that left the method,
\* caught the one its own except clause handled, df and stats what it
\* returned.
NoResult ==
    [error |-> "none", caught |-> "none", df |-> <<>>, stats |-> NoStats]
ResultOf(end) ==
    [error |-> end.error, caught |-> end.caught, df |-> end.df,
     stats |-> end.stats]

\* A faulty variant of ResetOnAnswer: an answer counts like a network error.
CountedOnAnswer(count) == count + 1

\* discord_scrap.py 59: retry_count = 0 on every answer, whatever its status.
ResetOnAnswer(count) == 0

Faults(requests) ==
    Len(SelectSeq(requests, LAMBDA r : r.status \in {"429", "error"}))

Request(status, page) ==
    [before |-> before_id, status |-> status, page |-> page]

DiscordIdle ==
    /\ dChannel = <<>> /\ dPc = "idle" /\ before_id = 0 /\ retry_count = 0
    /\ all_messages = <<>> /\ dRequests = <<>> /\ dResult = NoResult

\* discord_scrap.py 44-47, on any channel within the bounds.
DiscordInit ==
    /\ \E n \in 0..MaxChannel :
         \E ts \in [1..n -> RawTs], content \in [1..n -> ChannelContents] :
            /\ NewestFirst(ts)
            /\ dChannel = ChannelOf(n, ts, content)
    /\ dPc = "request" /\ before_id = 0 /\ retry_count = 0
    /\ all_messages = <<>> /\ dRequests = <<>> /\ dResult = NoResult

\* The page loop is left by break (discord_scrap.py 81, 89, 94, 110, 117):
\* lines 119-154 run to the return, or to the exception.
DiscordBreak(status, page, msgs) ==
    LET end == DiscordFinish(msgs)
    IN  /\ dRequests' = Append(dRequests, Request(status, page))
        /\ all_messages' = msgs
        /\ dPc' = end.pc
        /\ dResult' = ResultOf(end)
        /\ before_id' = before_id

\* Status 200 (discord_scrap.py 59-62, 93-117): the retry counter is reset,
\* the messages of the page within the window are collected, and the loop
\* goes on with the next page or is left.
DiscordPage ==
    /\ dPc = "request"
    /\ retry_count' = ResetOnAnswer(retry_count)
    /\ LET page == Page(dChannel, before_id)
           valid_messages == ValidMessages(page)
       IN  IF page # <<>> /\ valid_messages # <<>>
              /\ NextPageWanted(page, valid_messages)
           THEN /\ dRequests' = Append(dRequests, Request("200", page))
                /\ all_messages' = all_messages \o valid_messages
                /\ before_id' = NextCursor(valid_messages)
                /\ dPc' = "request"
                /\ dResult' = dResult
           ELSE DiscordBreak("200", page, all_messages \o valid_messages)
    /\ UNCHANGED <<dChannel, nonDiscordVars>>

\* Status 429 (discord_scrap.py 59, 63-67): the retry counter is reset like on
\* every answer, and the connector sleeps for the Retry-After seconds.
DiscordRateLimited ==
    /\ dPc = "request"
    /\ Faults(dRequests) < MaxFaults
    /\ retry_count' = ResetOnAnswer(retry_count)
    /\ dRequests' = Append(dRequests, Request("429", <<>>))
    /\ dPc' = "rate_limited"
    /\ UNCHANGED <<dChannel, before_id, all_messages, dResult, nonDiscordVars>>

\* Status 401 or 403 raises PermissionError, status 404 ValueError
\* (discord_scrap.py 68-76); nothing in the method catches them.
DiscordRefused ==
    /\ dPc = "request"
    /\ \E status \in {"401", "403", "404"} :
        /\ dRequests' = Append(dRequests, Request(status, <<>>))
        /\ dResult' = [error |-> IF status = "404" THEN "ValueError"
                                 ELSE "PermissionError",
                       caught |-> "none", df |-> <<>>, stats |-> NoStats]
    /\ retry_count' = ResetOnAnswer(retry_count)
    /\ dPc' = "raised"
    /\ UNCHANGED <<dChannel, before_id, all_messages, nonDiscordVars>>

\* Any other status (discord_scrap.py 77-81): logged, and the loop is left.
DiscordOtherStatus ==
    /\ dPc = "request"
    /\ retry_count' = ResetOnAnswer(retry_count)
    /\ DiscordBreak("500", <<>>, all_messages)
    /\ UNCHANGED <<dChannel, nonDiscordVars>>

\* aiohttp.ClientError or asyncio.TimeoutError (discord_scrap.py 83-91): the
\* retry counter goes up; at max_retries the loop is left, below it the
\* connector sleeps 2 ** retry_count seconds.
DiscordNetworkError ==
    /\ dPc = "request"
    /\ Faults(dRequests) < MaxFaults
    /\ retry_count' = retry_count + 1
    /\ IF retry_count + 1 >= MaxRetries
       THEN DiscordBreak("error", <<>>, all_messages)
       ELSE /\ dRequests' = Append(dRequests, Request("error", <<>>))
            /\ dPc' = "backoff"
            /\ UNCHANGED <<before_id, all_messages, dResult>>
    /\ UNCHANGED <<dChannel, nonDiscordVars>>

\* Status 200 whose body cannot be read (discord_scrap.py 59-62, 83-91): the
\* retry counter was reset when the answer arrived, then resp.json() raises
\* an aiohttp.ClientError (the content is not JSON, the payload breaks off)
\* or the total timeout of the request runs out, and the except clause counts
\* the failure like a network error. The request log has one entry, of status
\* "error", for a failed attempt and the failed body reads that follow it, so
\* that a run of them of any length is within the bound on the faults.
DiscordBodyError ==
    /\ dPc = "request"
    /\ LET logged == /\ dRequests # <<>>
                     /\ dRequests[Len(dRequests)] = Request("error", <<>>)
       IN  /\ logged \/ Faults(dRequests) < MaxFaults
           /\ retry_count' = ResetOnAnswer(retry_count) + 1
           /\ IF ResetOnAnswer(retry_count) + 1 >= MaxRetries
              THEN DiscordBreak("error", <<>>, all_messages)
              ELSE /\ dRequests' = IF logged THEN dRequests
                                   ELSE Append(dRequests, Request("error", <<>>))
                   /\ dPc' = "backoff"
                   /\ UNCHANGED <<before_id, all_messages, dResult>>
    /\ UNCHANGED <<dChannel, nonDiscordVars>>

\* asyncio.sleep is over (discord_scrap.py 66-67, 90-91): continue, the same
\* request is sent again.
DiscordWakes ==
    /\ dPc \in {"rate_limited", "backoff"}
    /\ dPc' = "request"
    /\ UNCHANGED <<dChannel, before_id, retry_count, all_messages, dRequests,
                   dResult, nonDiscordVars>>

DiscordNext ==
    \/ DiscordPage
    \/ DiscordRateLimited
    \/ DiscordRefused
    \/ DiscordOtherStatus
    \/ DiscordNetworkError
    \/ DiscordBodyError
    \/ DiscordWakes

---------------------------------------------------------------------------
(* TelegramScraper.scrape_24h_to_df_telegram (telegram_scrap.py 68-152),    *)
(* for one group. iter_messages yields the messages newest first; a message *)
(* carries a date, and a text that is empty for a message of media only.    *)

GroupId == "group"
MediaOnly == ""
GroupContents == Contents \cup {MediaOnly}

GroupOf(n, date, content) ==
    [i \in 1..n |-> [id |-> n + 1 - i, date |-> date[i],
                     content |-> content[i]]]

\* telegram_scrap.py 123-130
TelegramRecord(message) ==
    [id |-> message.id, text |-> FilterText(message.content),
     timestamp |-> message.date, platform |-> "telegram"]

\* telegram_scrap.py 141-145: the stats of the invocation.
TelegramStats(pulled, frame) ==
    [channel_id |-> GroupId, platform |-> "telegram",
     pulled |-> pulled, kept |-> Len(frame),
     success |-> SuccessDefault, error |-> ErrorDefault]

\* telegram_scrap.py 135-139: the dataframes the connector may build from
\* records: sorted by timestamp, one row per text, the last one.
TelegramFrames(recs) ==
    IF recs = <<>> THEN {<<>>}
    ELSE {DropDuplicatesKeepLast(sorted) : sorted \in SortValues(recs, TRUE)}

TelegramIdle ==
    /\ tGroup = <<>> /\ tPc = "idle" /\ tNext = 0 /\ tRecords = <<>>
    /\ total_pulled = 0 /\ tConsidered = 0 /\ tResult = NoResult

\* telegram_scrap.py 79-84, on any group within the bounds.
TelegramInit ==
    /\ \E n \in 0..MaxChannel :
         \E date \in [1..n -> 1..MaxTs], content \in [1..n -> GroupContents] :
            /\ NewestFirst(date)
            /\ tGroup = GroupOf(n, date, content)
    /\ tPc = "connect" /\ tNext = 1 /\ tRecords = <<>>
    /\ total_pulled = 0 /\ tConsidered = 0 /\ tResult = NoResult

\* telegram_scrap.py 79: ensure_connected returned.
TelegramConnects ==
    /\ tPc = "connect"
    /\ tPc' = "entity"
    /\ UNCHANGED <<tGroup, tNext, tRecords, total_pulled, tConsidered, tResult,
                   nonTelegramVars>>

\* telegram_scrap.py 79: ensure_connected raises (connect or login failed);
\* the call stands before the try statement, so the exception leaves the
\* method.
TelegramConnectRaises ==
    /\ tPc = "connect"
    /\ tPc' = "raised"
    /\ tResult' = [error |-> "ConnectionError", caught |-> "none",
                   df |-> <<>>, stats |-> NoStats]
    /\ UNCHANGED <<tGroup, tNext, tRecords, total_pulled, tConsidered,
                   nonTelegramVars>>

\* telegram_scrap.py 86: get_entity returned.
TelegramEntity ==
    /\ tPc = "entity"
    /\ tPc' = "iter"
    /\ UNCHANGED <<tGroup, tNext, tRecords, total_pulled, tConsidered, tResult,
                   nonTelegramVars>>

\* telegram_scrap.py 133-145: the iteration is over; total_pulled is assigned
\* the number of records, the dataframe is built and returned with the stats.
TelegramFinish ==
    /\ tPc' = "returned"
    /\ total_pulled' = Len(tRecords)
    /\ \E frame \in TelegramFrames(tRecords) :
         tResult' = [error |-> "none", caught |-> "none", df |-> frame,
                     stats |-> TelegramStats(Len(tRecords), frame)]
    /\ UNCHANGED <<tNext, tRecords, tConsidered>>

\* telegram_scrap.py 88-131: iter_messages yields the next message. One older
\* than the cutoff ends the iteration; one without text is passed over; any
\* other is counted, and recorded unless it is of low value.
TelegramMessage ==
    /\ tPc = "iter"
    /\ tNext <= Len(tGroup)
    /\ LET message == tGroup[tNext]
       IN  IF message.date < Cutoff
           THEN TelegramFinish
           ELSE /\ tNext' = tNext + 1
                /\ tPc' = "iter"
                /\ tResult' = tResult
                /\ IF message.content = MediaOnly
                   THEN UNCHANGED <<tRecords, total_pulled, tConsidered>>
                   ELSE /\ total_pulled' = total_pulled + 1
                        /\ tConsidered' = tConsidered + 1
                        /\ tRecords' =
                             IF IsLowValueMessage(message.content)
                             THEN tRecords
                             ELSE Append(tRecords, TelegramRecord(message))
    /\ UNCHANGED <<tGroup, nonTelegramVars>>

\* iter_messages is exhausted.
TelegramExhausted ==
    /\ tPc = "iter"
    /\ tNext > Len(tGroup)
    /\ TelegramFinish
    /\ UNCHANGED <<tGroup, nonTelegramVars>>

\* telegram_scrap.py 148-152: get_entity or iter_messages raises; the except
\* clause alerts the operator and returns an empty dataframe with stats built
\* from channel_id, platform, pulled=0 and kept=0 alone.
TelegramRaises ==
    /\ tPc \in {"entity", "iter"}
    /\ tPc' = "returned"
    /\ tResult' = [error |-> "none", caught |-> "Exception", df |-> <<>>,
                   stats |-> TelegramStats(0, <<>>)]
    /\ UNCHANGED <<tGroup, tNext, tRecords, total_pulled, tConsidered,
                   nonTelegramVars>>

TelegramNext ==
    \/ TelegramConnects
    \/ TelegramConnectRaises
    \/ TelegramEntity
    \/ TelegramMessage
    \/ TelegramExhausted
    \/ TelegramRaises

---------------------------------------------------------------------------
(* LLMClassifier.classify (classification.py 113-166): the batches of       *)
(* input_data, one _process_batch task each, under their own semaphore.     *)

\* batch_size (main.py 65 passes 10), scaled down.
BatchSize == 2

\* max_concurrent (main.py 65 passes 5), scaled down.
ClassifyCap == 2

\* classification.py 147: record i of the cleaned dataframe, with id i.
InputData(n) == [i \in 1..n |-> [id |-> i, platform |-> ItemPlatform(i)]]

\* classification.py 150: batches = [input_data[i:i + batch_size] for i in
\* range(0, len(input_data), batch_size)]
NumBatches(items) == (Len(items) + BatchSize - 1) \div BatchSize
BatchAt(items, b) ==
    SubSeq(items, (b - 1) * BatchSize + 1,
           IF b * BatchSize < Len(items) THEN b * BatchSize ELSE Len(items))
BatchIds == 1..NumBatches(InputData(MaxItems))

\* The verdicts of a service that answers every item of the batch, all with
\* the same keep.
VerdictsFor(items, keep) ==
    [i \in 1..Len(items) |->
        [id |-> items[i].id, platform |-> items[i].platform, keep |-> keep,
         score |-> StrScore, tags |-> <<"news">>]]

\* The verdicts of a service that answers as many verdicts as the batch has
\* items, every one with the id and platform of the first item.
VerdictsRepeated(items) ==
    [i \in 1..Len(items) |->
        [id |-> items[1].id, platform |-> items[1].platform, keep |-> StrTrue,
         score |-> StrScore, tags |-> <<"news">>]]

\* What the call for one batch may end in: an exception, content json.loads
\* rejects, JSON that is no list, a verdict per item, a list one verdict
\* short, or a list of the length of the batch that repeats one key.
ClassifyReplies(items) ==
    {[kind |-> k, body |-> <<>>] : k \in {"error", "notjson", "object"}}
    \cup {[kind |-> "list", body |-> VerdictsFor(items, k)] :
            k \in {StrTrue, StrFalse}}
    \cup {[kind |-> "list",
           body |-> SubSeq(VerdictsFor(items, StrTrue), 1, Len(items) - 1)]}
    \cup {[kind |-> "list", body |-> VerdictsRepeated(items)]}

NoReply == [kind |-> "none", body |-> <<>>]

\* A faulty variant of ExtendResults: the list is assigned, not extended.
ExtendResultsAssigned(list, result) == result

\* classification.py 157: results.extend(result)
ExtendResults(list, result) == list \o result

ClassifyIdle ==
    /\ clPc = "idle" /\ input_data = <<>> /\ clSemaphore = 0
    /\ clTaskPc = [b \in BatchIds |-> "none"]
    /\ clReply = [b \in BatchIds |-> NoReply]
    /\ clOrder = <<>> /\ results = <<>>

\* classify is called with a dataframe that has the required columns and 0 to
\* MaxItems rows with a text.
ClassifyInit ==
    /\ clPc = "start"
    /\ \E n \in 0..MaxItems : input_data = InputData(n)
    /\ clSemaphore = 0
    /\ clTaskPc = [b \in BatchIds |-> "none"]
    /\ clReply = [b \in BatchIds |-> NoReply]
    /\ clOrder = <<>> /\ results = <<>>

\* classification.py 141-161: without a row classify alerts the operator and
\* returns an empty dataframe; otherwise it cuts the batches, makes the
\* semaphore and hands one task per batch to asyncio.gather.
ClassifyStarts ==
    /\ clPc = "start"
    /\ IF input_data = <<>>
       THEN /\ clPc' = "returned"
            /\ UNCHANGED <<clSemaphore, clTaskPc>>
       ELSE /\ clPc' = "gather"
            /\ clSemaphore' = ClassifyCap
            /\ clTaskPc' = [b \in BatchIds |->
                              IF b <= NumBatches(input_data)
                              THEN "created" ELSE "none"]
    /\ UNCHANGED <<input_data, clReply, clOrder, results, nonClassifyVars>>

\* classification.py 155: async with semaphore entered; the task awaits
\* _classify_batch, which awaits the service.
BatchAcquire(b) ==
    /\ clTaskPc[b] = "created"
    /\ CanAcquire(clSemaphore)
    /\ clSemaphore' = clSemaphore - 1
    /\ clTaskPc' = [clTaskPc EXCEPT ![b] = "call"]
    /\ UNCHANGED <<clPc, input_data, clReply, clOrder, results,
                   nonClassifyVars>>

\* classification.py 156-158: _classify_batch returned result; results is
\* extended by it and the task leaves the with block.
BatchDone(b, result) ==
    /\ results' = ExtendResults(results, result)
    /\ clOrder' = Append(clOrder, b)
    /\ clSemaphore' = clSemaphore + 1
    /\ clTaskPc' = [clTaskPc EXCEPT ![b] = "done"]

\* The service call of batch b ends (classification.py 88-105), as in
\* ServiceReplies: an exception leads to the backoff sleep, anything else to
\* the return of the accepted list or of the fallback.
BatchReplies(b) ==
    /\ clTaskPc[b] = "call"
    /\ \E reply \in ClassifyReplies(BatchAt(input_data, b)) :
        /\ clReply' = [clReply EXCEPT ![b] = reply]
        /\ IF reply.kind \in {"error", "notjson"}
           THEN /\ clTaskPc' = [clTaskPc EXCEPT ![b] = "sleep"]
                /\ UNCHANGED <<clSemaphore, clOrder, results>>
           ELSE BatchDone(b, IF Accepts(reply, BatchAt(input_data, b))
                             THEN reply.body
                             ELSE FallbackVerdicts(BatchAt(input_data, b)))
    /\ UNCHANGED <<clPc, input_data, nonClassifyVars>>

\* The backoff sleep of batch b is over (classification.py 103-111), as in
\* SleepOver: _classify_batch returns the fallback.
BatchSleepOver(b) ==
    /\ clTaskPc[b] = "sleep"
    /\ BatchDone(b, FallbackVerdicts(BatchAt(input_data, b)))
    /\ UNCHANGED <<clPc, input_data, clReply, nonClassifyVars>>

\* classification.py 161-166: asyncio.gather returned, every task has; the
\* dataframe of results is returned.
ClassifyReturns ==
    /\ clPc = "gather"
    /\ \A b \in 1..NumBatches(input_data) : clTaskPc[b] = "done"
    /\ clPc' = "returned"
    /\ UNCHANGED <<input_data, clSemaphore, clTaskPc, clReply, clOrder,
                   results, nonClassifyVars>>

ClassifyNext ==
    \/ ClassifyStarts
    \/ \E b \in BatchIds : BatchAcquire(b)
    \/ \E b \in BatchIds : BatchReplies(b)
    \/ \E b \in BatchIds : BatchSleepOver(b)
    \/ ClassifyReturns

ConnIdle == DiscordIdle /\ TelegramIdle /\ ClassifyIdle

---------------------------------------------------------------------------
(* The specifications.                                                     *)

\* scrape_all_sources
Init == ScrapeInit /\ MainInit /\ MergeIdle /\ BatchIdle /\ FinalIdle /\ ConnIdle
Next == ScrapeNext
Spec == Init /\ [][Next]_vars

\* The merge step alone, on every concatenation within the bounds.
InitMerge ==
    ScrapeIdle /\ MainIdle /\ MergeInit /\ BatchIdle /\ FinalIdle /\ ConnIdle
SpecMerge == InitMerge /\ [][MergeNext]_vars

\* _classify_batch
InitBatch ==
    ScrapeIdle /\ MainIdle /\ MergeIdle /\ BatchInit /\ FinalIdle /\ ConnIdle
SpecBatch == InitBatch /\ [][BatchNext]_vars

\* DiscordScraper.fetch_and_filter_messages
InitDiscord ==
    /\ ScrapeIdle /\ MainIdle /\ MergeIdle /\ BatchIdle /\ FinalIdle
    /\ DiscordInit /\ TelegramIdle /\ ClassifyIdle
SpecDiscord == InitDiscord /\ [][DiscordNext]_vars

\* The connector under the scheduling of the event loop: the coroutine is
\* resumed whenever it can go on, since every request has a total timeout
\* (discord_scrap.py 57) and every sleep ends.
SpecDiscordFair == SpecDiscord /\ WF_vars(DiscordNext)

\* TelegramScraper.scrape_24h_to_df_telegram
InitTelegram ==
    /\ ScrapeIdle /\ MainIdle /\ MergeIdle /\ BatchIdle /\ FinalIdle
    /\ DiscordIdle /\ TelegramInit /\ ClassifyIdle
SpecTelegram == InitTelegram /\ [][TelegramNext]_vars

\* LLMClassifier.classify
InitClassify ==
    /\ ScrapeIdle /\ MainIdle /\ MergeIdle /\ BatchIdle /\ FinalIdle
    /\ DiscordIdle /\ TelegramIdle /\ ClassifyInit
SpecClassify == InitClassify /\ [][ClassifyNext]_vars

\* Every place of a run where a ScrapeStats entry is built: the two
\* connectors and the tasks of scrape_all_sources.
InitHarvest == Init \/ InitDiscord \/ InitTelegram
NextHarvest == ScrapeNext \/ DiscordNext \/ TelegramNext
SpecHarvest == InitHarvest /\ [][NextHarvest]_vars

\* The result merger
InitFinal ==
    ScrapeIdle /\ MainIdle /\ MergeIdle /\ BatchIdle /\ FinalInit /\ ConnIdle
SpecFinal == InitFinal /\ [][FinalNext]_vars

---------------------------------------------------------------------------
(* The claims about scrape_all_sources, under Spec.                        *)

HasFailedStats(s) ==
    \E i \in 1..Len(all_stats) :
        /\ all_stats[i].channel_id = s
        /\ all_stats[i].pulled = 0 /\ all_stats[i].kept = 0
        /\ all_stats[i].success = SuccessFalse

\* C1: whenever the connector invocation of a source raises, the exception is
\* caught inside that source's task (the task does not end with an
\* exception), the finished task has recorded a ScrapeStats entry with
\* pulled=0, kept=0, success=false for the source, and scrape_all_sources does
\* not end with an exception.
C1_ExceptionIsolated ==
    /\ orchPc # "raised"
    /\ \A s \in raisedIn :
        /\ taskPc[s] # "failed"
        /\ taskPc[s] = "done" => HasFailedStats(s)

\* C2: control leaves scrape_all_sources, by return or by exception, only
\* when every dispatched task has resolved: none is still inside its
\* connector or its except clause, none still waits for the semaphore.
C2_LeavesAfterAllResolved ==
    orchPc \in {"returned", "raised"} =>
        \A s \in Sources : taskPc[s] \in {"done", "failed"}

InProgress == {s \in Sources : taskPc[s] \in {"connector", "except"}}

\* C3: in every reachable state the number of tasks inside the with block of
\* the semaphore (in a connector invocation, or in the except clause after
\* one) is at most max_concurrent.
C3_ConcurrencyCap == Cardinality(InProgress) <= max_concurrent

\* The case of C3: max_concurrent = 2, two tasks inside a connector, and at
\* least three more tasks kept waiting for the semaphore.
C3_CapReached ==
    /\ max_concurrent = 2
    /\ Cardinality({s \in Sources : taskPc[s] = "connector"}) = 2
    /\ Cardinality({s \in Sources : taskPc[s] = "created"}) >= 3
    /\ semaphore = 0

---------------------------------------------------------------------------
(* The claims about _classify_batch, under SpecBatch.                      *)

LastReply == cbLog[Len(cbLog)]

\* The batch ended on the fallback path: the last response was not a list of
\* the batch's length.
TookFallback ==
    /\ cbPc = "returned"
    /\ ~(LastReply.kind = "list" /\ Len(LastReply.body) = Len(batch))

\* C4: _classify_batch returns fallback verdicts only after three attempts
\* have all failed: after a failed first or second attempt it calls the
\* service again.
C4_FallbackOnlyAfterThreeAttempts == TookFallback => Len(cbLog) = 3

\* C5: the returned list is either the service response, a list of exactly
\* the batch's length, or the fallback verdicts for every item of the batch;
\* a response of another length is never returned.
C5_AllOrNothing ==
    cbPc = "returned" =>
        /\ \/ /\ LastReply.kind = "list"
              /\ Len(LastReply.body) = Len(batch)
              /\ cbResult = LastReply.body
           \/ cbResult = FallbackVerdicts(batch)
        /\ Len(cbResult) = Len(batch)

\* The case of C5: the service answered with a list shorter or longer than the
\* batch and the batch ended with fallback verdicts for all its items.
C5_WrongLengthFellBack ==
    /\ cbPc = "returned"
    /\ LastReply.kind = "list"
    /\ Len(LastReply.body) # Len(batch)
    /\ LastReply.body # <<>>
    /\ cbResult = FallbackVerdicts(batch)

\* C6: every verdict of the fallback path carries the id and the platform of
\* its batch item, keep = false as the boolean of the data model, score = 0.0
\* as a number and no tag, and every item of the batch gets one.
C6_FallbackVerdictShape ==
    TookFallback =>
        /\ Len(cbResult) = Len(batch)
        /\ \A i \in 1..Len(cbResult) :
            /\ cbResult[i].id = batch[i].id
            /\ cbResult[i].platform = batch[i].platform
            /\ cbResult[i].keep = PyFalse
            /\ cbResult[i].score = FloatZero
            /\ cbResult[i].tags = <<>>

---------------------------------------------------------------------------
(* The claim about the result merger, under SpecFinal.                     *)

\* The verdicts joined to a row of the merged collection.
VerdictsOf(row) ==
    {j \in 1..Len(df) : df[j].id = row.id /\ df[j].platform = row.platform}

SaysKeepFalse(j) == df[j].keep \in {PyFalse, StrFalse}

InOutput(row) == \E k \in 1..Len(records) : records[k].text = row.text

\* C7: a record whose verdict says keep=false is removed, a record whose
\* verdict says keep=true or that has no verdict is retained, and no output
\* record has a keep field.
C7_MergerRemovesKeepFalse ==
    finPc = "done" =>
        /\ \A i \in 1..Len(df_combined) :
            /\ (\E j \in VerdictsOf(df_combined[i]) : SaysKeepFalse(j))
                    => ~InOutput(df_combined[i])
            /\ (\A j \in VerdictsOf(df_combined[i]) : ~SaysKeepFalse(j))
                    => InOutput(df_combined[i])
        /\ \A k \in 1..Len(records) : "keep" \notin DOMAIN records[k]

---------------------------------------------------------------------------
(* The claims about the merge step, under SpecMerge.                       *)

TextsOf(rows) == {rows[i].text : i \in 1..Len(rows)}

\* The latest of the timestamps the rows of text t have after coercion (NaT,
\* which is no instant, only when none of them parses).
LatestOf(rows, t) ==
    LET stamps == {ToDatetime(rows[i].timestamp) :
                    i \in {k \in 1..Len(rows) : rows[k].text = t}}
    IN  CHOOSE m \in stamps : \A x \in stamps : x <= m

\* C8: for every text of the concatenated records exactly one merged record
\* has that text, and it carries the latest timestamp of the records with
\* that text.
C8_LatestPerText ==
    mPc # "start" =>
        \A t \in TextsOf(mIn) :
            /\ Cardinality({i \in 1..Len(mOut) : mOut[i].text = t}) = 1
            /\ \A i \in 1..Len(mOut) :
                mOut[i].text = t => mOut[i].timestamp = LatestOf(mIn, t)

\* C9: the merged collection is sorted by timestamp, latest first: no record
\* is preceded by a record with an earlier timestamp (the records without a
\* timestamp stand after all others).
C9_SortedDescending ==
    mPc # "start" =>
        \A i, j \in 1..Len(mOut) :
            i < j =>
                /\ mOut[i].timestamp = NaT => mOut[j].timestamp = NaT
                /\ mOut[j].timestamp # NaT => mOut[i].timestamp >= mOut[j].timestamp

\* The case of C9: the concatenation began with an earlier record followed by
\* a later one, and the merged collection holds them latest first.
C9_Reordered ==
    /\ mPc = "merged"
    /\ Len(mIn) >= 2 /\ Len(mOut) >= 2
    /\ mIn[1].timestamp # Unparsable
    /\ mIn[1].timestamp < mIn[2].timestamp
    /\ mOut[1].timestamp > mOut[2].timestamp
    /\ mOut[2].timestamp # NaT

\* C10: the merge step applied to its own output returns the same sequence of
\* records, also when records share a timestamp.
C10_MergeIdempotent == mPc = "remerged" => mOut2 = mOut

---------------------------------------------------------------------------
(* The claims about the ScrapeStats entries.                               *)

\* C11: every ScrapeStats entry built during a run - by the Discord
\* connector, by the Telegram connector on its normal and on its except path,
\* and by a task of scrape_all_sources on its except path - has
\* kept <= pulled. Under SpecHarvest.
C11_KeptAtMostPulled ==
    /\ \A i \in 1..Len(all_stats) : all_stats[i].kept <= all_stats[i].pulled
    /\ dPc = "returned" => dResult.stats.kept <= dResult.stats.pulled
    /\ tPc = "returned" => tResult.stats.kept <= tResult.stats.pulled

\* The Discord connector returned after its filter rejected a message.
C11_FilterRejected ==
    /\ dPc = "returned"
    /\ dResult.stats.kept < dResult.stats.pulled
    /\ dResult.stats.kept > 0

\* C12: in the ScrapeStats a connector returns on its normal path, pulled is
\* the number of messages that reached the low-value filter, those it
\* rejected included, and kept is the number of records in the returned
\* dataframe. Under SpecHarvest.
C12_PulledCountsRejected ==
    /\ dPc = "returned" =>
        /\ dResult.stats.pulled = Len(all_messages)
        /\ dResult.stats.kept = Len(dResult.df)
    /\ (tPc = "returned" /\ tResult.caught = "none") =>
        /\ tResult.stats.pulled = tConsidered
        /\ tResult.stats.kept = Len(tResult.df)

\* C13: when scrape_all_sources returns, all_stats holds exactly one entry for
\* each source identifier passed in, whether its connector returned or
\* raised: none is missing and none appears twice. Under Spec.
EntriesOf(s) == {i \in 1..Len(all_stats) : all_stats[i].channel_id = s}
C13_OneEntryPerSource ==
    orchPc = "returned" =>
        /\ \A s \in Sources : Cardinality(EntriesOf(s)) = 1
        /\ Len(all_stats) = Cardinality(Sources)

\* scrape_all_sources returned after the connector of one source raised and
\* that of another returned.
C13_ReturnedWithFailure ==
    /\ orchPc = "returned"
    /\ \E s \in raisedIn : HasFailedStats(s)
    /\ \E i \in 1..Len(all_stats) : all_stats[i].success = SuccessDefault

---------------------------------------------------------------------------
(* The claims about the connectors.                                        *)

\* C14: no connector invocation ends with an exception, and one whose own
\* except clause handled an error returns an empty dataframe with stats whose
\* success is False and whose error is set. Under SpecHarvest.
C14_ConnectorNeverRaises ==
    /\ dPc # "raised"
    /\ tPc # "raised"
    /\ (tPc = "returned" /\ tResult.caught # "none") =>
        /\ tResult.df = <<>>
        /\ tResult.stats.success = SuccessFalse
        /\ tResult.stats.error # ErrorDefault

\* C15: a network error below the retry cap is followed by a backoff sleep;
\* once retry_count has reached max_retries the source counts as failed: the
\* invocation ends with an exception (which the task of scrape_all_sources
\* turns into a failed entry) or returns no record and stats whose success is
\* False. Under SpecDiscord.
C15_RetryCapReportsFailure ==
    /\ dPc = "backoff" => retry_count \in 1..(MaxRetries - 1)
    /\ retry_count >= MaxRetries =>
        \/ dPc = "raised"
        \/ /\ dPc = "returned"
           /\ dResult.df = <<>>
           /\ dResult.stats.success = SuccessFalse

\* C16: after a 429 answer the connector is asleep or sending again, with the
\* retry counter not raised and the cursor untouched, and the request that
\* follows a 429 answer carries the same before cursor. Under SpecDiscord.
C16_RateLimitSamePage ==
    \A i \in 1..Len(dRequests) :
        dRequests[i].status = "429" =>
            /\ i < Len(dRequests) =>
                dRequests[i + 1].before = dRequests[i].before
            /\ i = Len(dRequests) =>
                /\ dPc \in {"rate_limited", "request"}
                /\ retry_count = 0
                /\ before_id = dRequests[i].before

\* The second page was asked for MaxFaults times in vain, a network error
\* first and 429 answers after it, and then came.
C16_SecondPageAfterRateLimits ==
    \E i \in 2..Len(dRequests) :
        /\ i > MaxFaults + 1
        /\ dRequests[i].status = "200" /\ dRequests[i].before # 0
        /\ dRequests[i - 1].status = "429"
        /\ dRequests[2].status = "error"
        /\ \A k \in 3..(i - 1) : dRequests[k].status = "429"

\* C20: every page is requested with limit PageSize; the request after a page
\* carries as before cursor the id of the oldest message of that page; and a
\* page is followed by another request exactly when it was full and held no
\* message older than the cutoff. Under SpecDiscord.
IsOlder(msg) == msg.timestamp # Unparsable /\ msg.timestamp < Cutoff
FullAndRecent(page) ==
    Len(page) = PageSize /\ \A k \in 1..Len(page) : ~IsOlder(page[k])
FollowedByRequest(i) ==
    i < Len(dRequests) \/ dPc \in {"request", "rate_limited", "backoff"}
C20_Pagination ==
    \A i \in 1..Len(dRequests) :
        dRequests[i].status = "200" =>
            /\ Len(dRequests[i].page) <= PageSize
            /\ FollowedByRequest(i) <=> FullAndRecent(dRequests[i].page)
            /\ i < Len(dRequests) =>
                LET page == dRequests[i].page
                IN  dRequests[i + 1].before = page[Len(page)].id

---------------------------------------------------------------------------
(* The claim about classify, under SpecClassify.                           *)

\* What batch b must have brought: the list the service answered for it when
\* line 99 accepted that list, the fallback verdicts of its own items when
\* its call failed.
CallFailed(b) == ~Accepts(clReply[b], BatchAt(input_data, b))
OutcomeOf(b) ==
    IF CallFailed(b)
    THEN FallbackVerdicts(BatchAt(input_data, b))
    ELSE clReply[b].body
RECURSIVE OutcomesIn(_)
OutcomesIn(order) ==
    IF order = <<>> THEN <<>>
    ELSE OutcomeOf(Head(order)) \o OutcomesIn(Tail(order))

\* C17: whatever the calls of the batches ended in and in whatever order the
\* batch tasks ran, no batch task ends with an exception, and when classify
\* returns, results holds for every batch, once, the verdicts of that batch:
\* the fallback verdicts of its items when its call failed, the list the
\* service answered for it otherwise.
C17_BatchesIndependent ==
    /\ results = OutcomesIn(clOrder)
    /\ \A i, j \in 1..Len(clOrder) : clOrder[i] = clOrder[j] => i = j
    /\ clPc = "returned" =>
        {clOrder[i] : i \in 1..Len(clOrder)} = 1..NumBatches(input_data)

\* classify returned after the call of one batch failed and that of another,
\* which finished first although created later, was answered in full.
C17_OneFailedOthersServed ==
    /\ clPc = "returned"
    /\ \E a, b \in 1..NumBatches(input_data) :
        /\ a < b
        /\ CallFailed(a) /\ ~CallFailed(b)
        /\ \E i, j \in 1..Len(clOrder) :
            i < j /\ clOrder[i] = b /\ clOrder[j] = a

---------------------------------------------------------------------------
(* The claims about a whole run, under Spec.                               *)

StillHarvesting(s) == taskPc[s] \in {"created", "connector", "except"}

\* C18: while classify runs - from its call on, so whenever one of its
\* batches is dispatched - no source task is still running, also in the runs
\* where the connector of a source raised.
C18_DomainsNeverOverlap ==
    mainPc = "classify" => \A s \in Sources : ~StillHarvesting(s)

\* classify runs after the connector of some source raised.
C18_ClassifyAfterFailure ==
    /\ mainPc = "classify"
    /\ raisedIn # {}
    /\ \E i \in 1..Len(all_stats) : all_stats[i].success = SuccessFalse

\* C19: a run that ended with every source task over and no dataframe
\* collected from any source has alerted the operator that no message was
\* collected, has ended by an exception, and has written no output file.
RunOver ==
    /\ mainPc \in {"aborted", "written"}
    /\ \A s \in Sources : ~StillHarvesting(s)
C19_NoRecordsAlertAndAbort ==
    (RunOver /\ all_dfs = <<>>) =>
        /\ AlertNoMessages \in alerts
        /\ mainPc = "aborted"
        /\ ~output_written

---------------------------------------------------------------------------
(* The claims about the records the connectors return.                     *)

IdsOf(rows) == {rows[k].id : k \in 1..Len(rows)}

\* C21: every record a connector returns has a timestamp at or after the
\* cutoff, and a connector halts at the first message older than the cutoff:
\* the Discord connector collects neither that message nor any later message
\* of the page and sends no further request; the Telegram connector takes no
\* further message from the iterator. Under SpecHarvest.
C21_HaltsAtCutoff ==
    /\ dPc = "returned" =>
        \A k \in 1..Len(dResult.df) : dResult.df[k].timestamp >= Cutoff
    /\ \A i \in 1..Len(dRequests) :
        \A k \in 1..Len(dRequests[i].page) :
            IsOlder(dRequests[i].page[k]) =>
                /\ ~FollowedByRequest(i)
                /\ \A j \in k..Len(dRequests[i].page) :
                    dRequests[i].page[j].id \notin IdsOf(all_messages)
    /\ tPc = "returned" =>
        \A k \in 1..Len(tResult.df) : tResult.df[k].timestamp >= Cutoff
    /\ \A k \in 1..Len(tGroup) :
        tGroup[k].date < Cutoff =>
            /\ tNext <= k
            /\ tGroup[k].id \notin IdsOf(tRecords)

\* The Discord connector returned after a full page whose first message was
\* within the window and whose second was older, with more messages left in
\* the channel.
C21_HaltedInsideFullPage ==
    /\ dPc = "returned"
    /\ Len(dChannel) > PageSize
    /\ \E i \in 1..Len(dRequests) :
        /\ Len(dRequests[i].page) = PageSize
        /\ ~IsOlder(dRequests[i].page[1])
        /\ IsOlder(dRequests[i].page[PageSize])

\* C22: the dataframe a connector returns holds no two records with the
\* same text, and the record it holds for a text has the latest timestamp of
\* the harvested records with that text. Under SpecHarvest.
Deduplicated(frame, harvested) ==
    /\ \A i, j \in 1..Len(frame) : frame[i].text = frame[j].text => i = j
    /\ \A i \in 1..Len(frame) : \A k \in 1..Len(harvested) :
        harvested[k].text = frame[i].text =>
            harvested[k].timestamp <= frame[i].timestamp
    /\ \A k \in 1..Len(harvested) : \E i \in 1..Len(frame) :
        frame[i].text = harvested[k].text
C22_ConnectorDeduplicates ==
    /\ dPc = "returned" =>
        Deduplicated(dResult.df, FilteredData(all_messages))
    /\ (tPc = "returned" /\ tResult.caught = "none") =>
        Deduplicated(tResult.df, tRecords)

---------------------------------------------------------------------------
(* A further claim about the merge step, under SpecMerge.                  *)

\* C23: no record of the merged collection has a timestamp that could not be
\* parsed, that is one the coercion turned into NaT.
C23_UnparsableDropped ==
    mPc # "start" => \A i \in 1..Len(mOut) : mOut[i].timestamp # NaT

---------------------------------------------------------------------------
(* Further claims about the connectors, under SpecHarvest.                 *)

\* C24: every record a connector returns stores a text that is not of low
\* value: the text is not empty and the heuristic does not reject it.
C24_StoredTextNotLowValue ==
    /\ dPc = "returned" =>
          \A i \in 1..Len(dResult.df) :
              /\ dResult.df[i].text # ""
              /\ ~IsLowValueMessage(dResult.df[i].text)
    /\ (tPc = "returned" /\ tResult.caught = "none") =>
          \A i \in 1..Len(tResult.df) :
              /\ tResult.df[i].text # ""
              /\ ~IsLowValueMessage(tResult.df[i].text)

---------------------------------------------------------------------------
(* A further claim about classify, under SpecClassify.                     *)

KeyOf(r) == <<r.id, r.platform>>
VerdictsWithKey(key) == {k \in 1..Len(results) : KeyOf(results[k]) = key}

\* C25: when classify returns, the verdicts hold exactly one verdict for the
\* (id, platform) key of every input record, and no verdict for a key that no
\* input record has.
C25_OneVerdictPerKey ==
    clPc = "returned" =>
        /\ \A i \in 1..Len(input_data) :
            Cardinality(VerdictsWithKey(KeyOf(input_data[i]))) = 1
        /\ \A k \in 1..Len(results) :
            \E i \in 1..Len(input_data) :
                KeyOf(results[k]) = KeyOf(input_data[i])

---------------------------------------------------------------------------
(* Further claims about the result merger, under SpecFinal.                *)

\* The keep value the fallback of _classify_batch writes into its verdicts.
FallbackKeep ==
    FallbackVerdicts(<<[id |-> 1, platform |-> "telegram"]>>)[1].keep

\* The rows of the merged collection whose verdicts all come from a fallback.
EndedInFallback(row) ==
    /\ VerdictsOf(row) # {}
    /\ \A j \in VerdictsOf(row) : df[j].keep = FallbackKeep

\* C26: a record whose classification batch ended in fallback, so that its
\* verdict carries the keep value the fallback writes, is absent from the
\* final output.
C26_FallbackRecordsExcluded ==
    finPc = "done" =>
        \A i \in 1..Len(df_combined) :
            EndedInFallback(df_combined[i]) => ~InOutput(df_combined[i])

\* The place in the merged collection of the record an output record was made
\* of (the texts of a merged collection differ pairwise).
PlaceOf(rec) == CHOOSE i \in 1..Len(df_combined) : df_combined[i].text = rec.text

\* C27: the output holds every merged record at most once, and its records
\* stand in the order of the merged collection.
C27_JoinOncePerRecordInOrder ==
    finPc = "done" =>
        /\ \A k \in 1..Len(records) :
            \E i \in 1..Len(df_combined) : df_combined[i].text = records[k].text
        /\ \A k, l \in 1..Len(records) :
            k < l => PlaceOf(records[k]) < PlaceOf(records[l])

---------------------------------------------------------------------------
(* The claim about the end of the page loop, under SpecDiscordFair.        *)

\* C28: every invocation of the Discord connector eventually returns or
\* raises.
C28_DiscordTerminates == <>(dPc \in {"returned", "raised"})

---------------------------------------------------------------------------
(* A further claim about the Discord connector, under SpecDiscord.         *)

\* The invocation is over and every request of it was answered with status
\* 200 and read.
ReadWithoutError ==
    /\ dPc \in {"returned", "raised"}
    /\ \A i \in 1..Len(dRequests) : dRequests[i].status = "200"

\* C29: an invocation that read its channel without any error and kept no
\* record returns, with an empty record set and with stats that do not say
\* failure and whose pulled is the number of messages it examined.
C29_NothingKeptIsSuccess ==
    (ReadWithoutError /\ FilteredData(all_messages) = <<>>) =>
        /\ dPc = "returned"
        /\ dResult.df = <<>>
        /\ dResult.stats.pulled = Len(all_messages)
        /\ dResult.stats.success # SuccessFalse

=========================================================================
